---- MODULE Spec2Model ----
(***************************************************************************)
(* Two-link planar arm demo (src/pages/index.js): the React component Home *)
(* with its solvers computeFK / computeIK, its three effects and drawArm.  *)
(*                                                                         *)
(* Numbers.  A JavaScript number is modelled as an exact real: a finite    *)
(* value is a sum of rational multiples of square roots of square-free     *)
(* integers, kept in canonical form, and NaN, +Infinity and -Infinity      *)
(* propagate as IEEE-754 prescribes.  Floating-point rounding is not       *)
(* modelled.  Equality of model values is JavaScript's Object.is (the      *)
(* comparison React uses for state and dependency lists): NaN equals NaN.  *)
(*                                                                         *)
(* Angles.  An angle is kept as its direction (cos, sin), its number of    *)
(* full turns and its unit, so that Math.cos, Math.sin, Math.acos and      *)
(* Math.atan2 are exact and toRad / toDeg convert between the units.       *)
(***************************************************************************)
EXTENDS Integers, Sequences, FiniteSets, TLC

VARIABLES
    mode, L1, L2,          \* useState: "FK" / "IK", link lengths
    theta1, theta2,        \* useState: FK-mode angle inputs (whole degrees)
    targetX, targetY,      \* useState: IK-mode target inputs
    endX, endY,            \* useState: FK result shown on the page
    ikTheta1, ikTheta2,    \* useState: IK result (angles in degrees)
    canvasRef,             \* useRef: "null" until the canvas is mounted
    view,                  \* the state values captured by the latest render
    prev,                  \* the state values of the render before it
    mounted,               \* whether the effects of a first commit have run
    pc,                    \* "render", "effects" or "idle"
    renders,               \* renders of the update in progress (0 when idle)
    canvas,                \* what the last drawArm put on the canvas
    solve                  \* the last direct call of a solver and its result

(***************************************************************************)
(* Integer helpers.                                                        *)
(***************************************************************************)
AbsInt(i) == IF i < 0 THEN -i ELSE i

SignInt(i) == IF i < 0 THEN -1 ELSE IF i > 0 THEN 1 ELSE 0

RECURSIVE Gcd(_, _)
Gcd(a, b) == IF b = 0 THEN AbsInt(a) ELSE Gcd(b, AbsInt(a) % AbsInt(b))

RECURSIVE GcdSet(_)
GcdSet(S) == IF S = {} THEN 0
             ELSE LET e == CHOOSE e \in S : TRUE IN Gcd(e, GcdSet(S \ {e}))

RECURSIVE SumSet(_)
SumSet(S) == IF S = {} THEN 0
             ELSE LET e == CHOOSE e \in S : TRUE IN e[2] + SumSet(S \ {e})

\* floor(sqrt(n)) for n >= 0, by bisection on [lo, hi).
RECURSIVE ISqrtIn(_, _, _)
ISqrtIn(n, lo, hi) ==
    IF hi - lo <= 1 THEN lo
    ELSE LET mid == (lo + hi) \div 2
         IN  IF mid * mid <= n THEN ISqrtIn(n, mid, hi) ELSE ISqrtIn(n, lo, mid)

ISqrt(n) == ISqrtIn(n, 0, 46341)

\* The largest k with k*k dividing n (n >= 1).
SquarePart(n) ==
    LET S == {k \in 1..ISqrt(n) : n % (k * k) = 0}
    IN  CHOOSE k \in S : \A j \in S : j <= k

(***************************************************************************)
(* JavaScript numbers.  A finite number is [k |-> "fin", n, d]: the sum    *)
(* over m in DOMAIN n of n[m] * sqrt(m), divided by d, with every m        *)
(* square-free, every n[m] non-zero, d >= 1 and gcd of all of them 1.      *)
(***************************************************************************)
NaN == [k |-> "NaN", n |-> <<>>, d |-> 1]

PosInf == [k |-> "+Inf", n |-> <<>>, d |-> 1]

NegInf == [k |-> "-Inf", n |-> <<>>, d |-> 1]

IsFinite(a) == a.k = "fin"

Coef(n, m) == IF m \in DOMAIN n THEN n[m] ELSE 0

\* Canonical form of (sum of f[m]*sqrt(m)) / d for d # 0, radicands square-free.
Normal(f, d) ==
    LET keep == {m \in DOMAIN f : f[m] # 0}
        g    == Gcd(d, GcdSet({f[m] : m \in keep}))
        s    == IF d < 0 THEN -g ELSE g
    IN  [k |-> "fin", n |-> [m \in keep |-> f[m] \div s], d |-> d \div s]

Rat(p, q) == Normal([m \in {1} |-> p], q)

Num(i) == Rat(i, 1)

Zero == Num(0)

One == Num(1)

Neg(a) ==
    IF a.k = "NaN" THEN NaN
    ELSE IF a.k = "+Inf" THEN NegInf
    ELSE IF a.k = "-Inf" THEN PosInf
    ELSE [k |-> "fin", n |-> [m \in DOMAIN a.n |-> -a.n[m]], d |-> a.d]

\* a + b (IEEE-754: NaN is contagious; the infinities are not added here).
Add(a, b) ==
    IF ~IsFinite(a) \/ ~IsFinite(b) THEN NaN
    ELSE LET l == (a.d \div Gcd(a.d, b.d)) * b.d
         IN  Normal([m \in (DOMAIN a.n) \cup (DOMAIN b.n) |->
                        Coef(a.n, m) * (l \div a.d) + Coef(b.n, m) * (l \div b.d)], l)

Sub(a, b) == Add(a, Neg(b))

\* sqrt(m1) * sqrt(m2) = g * sqrt(m1*m2 / g^2) with g = gcd(m1, m2).
MulRad(m1, m2) == LET g == Gcd(m1, m2) IN (m1 \div g) * (m2 \div g)

Mul(a, b) ==
    IF ~IsFinite(a) \/ ~IsFinite(b) THEN NaN
    ELSE LET g1    == Gcd(GcdSet({a.n[m] : m \in DOMAIN a.n}), b.d)
             g2    == Gcd(GcdSet({b.n[m] : m \in DOMAIN b.n}), a.d)
             pairs == (DOMAIN a.n) \X (DOMAIN b.n)
             rads  == {MulRad(p[1], p[2]) : p \in pairs}
             prod(p) == (a.n[p[1]] \div g1) * (b.n[p[2]] \div g2) * Gcd(p[1], p[2])
         IN  IF pairs = {} THEN Zero
             ELSE Normal([r \in rads |->
                            SumSet({<<p, prod(p)>> : p \in {q \in pairs : MulRad(q[1], q[2]) = r}})],
                         (a.d \div g2) * (b.d \div g1))

\* Sign of a finite number of at most two terms: p*sqrt(m) + q*sqrt(n).
Sign(a) ==
    LET ms == DOMAIN a.n
    IN  IF ms = {} THEN 0
        ELSE IF Cardinality(ms) = 1 THEN SignInt(a.n[CHOOSE m \in ms : TRUE])
        ELSE LET m == CHOOSE m \in ms : TRUE
                 n == CHOOSE n \in ms : n # m
                 p == a.n[m]
                 q == a.n[n]
             IN  IF Cardinality(ms) > 2 THEN CHOOSE s \in {} : TRUE
                 ELSE IF SignInt(p) = SignInt(q) THEN SignInt(p)
                 ELSE IF p * p * m > q * q * n THEN SignInt(p) ELSE SignInt(q)

\* a < b and a > b as JavaScript evaluates them: false when either is NaN.
Lt(a, b) ==
    IF a.k = "NaN" \/ b.k = "NaN" THEN FALSE
    ELSE IF a.k = "-Inf" THEN b.k # "-Inf"
    ELSE IF a.k = "+Inf" THEN FALSE
    ELSE IF b.k = "-Inf" THEN FALSE
    ELSE IF b.k = "+Inf" THEN TRUE
    ELSE Sign(Sub(a, b)) < 0

Gt(a, b) == Lt(b, a)

\* a / b: x/0 is NaN for x = 0 and an infinity otherwise; the divisor of a
\* finite quotient is a single term p*sqrt(m)/d, inverted as d*sqrt(m)/(p*m).
Div(a, b) ==
    IF ~IsFinite(a) \/ ~IsFinite(b) THEN NaN
    ELSE IF DOMAIN b.n = {} THEN
        IF Sign(a) = 0 THEN NaN ELSE IF Sign(a) > 0 THEN PosInf ELSE NegInf
    ELSE LET m == CHOOSE m \in DOMAIN b.n : Cardinality(DOMAIN b.n) = 1
         IN  Mul(a, Normal([r \in {m} |-> b.d], b.n[m] * m))

\* Math.sqrt of a rational p/q >= 0: sqrt(p)/sqrt(q) with the squares taken out.
Sqrt(a) ==
    IF a.k = "NaN" \/ a.k = "-Inf" THEN NaN
    ELSE IF a.k = "+Inf" THEN PosInf
    ELSE IF Sign(a) < 0 THEN NaN
    ELSE IF Sign(a) = 0 THEN Zero
    ELSE LET p  == a.n[CHOOSE m \in DOMAIN a.n : DOMAIN a.n = {1}]
             q  == a.d
             sp == SquarePart(p)
             sq == SquarePart(q)
             mp == p \div (sp * sp)
             mq == q \div (sq * sq)
             g  == Gcd(mp, mq)
         IN  Normal([r \in {MulRad(mp, mq)} |-> sp * g], sq * mq)

MathAbs(a) ==
    IF a.k = "NaN" THEN NaN
    ELSE IF ~IsFinite(a) THEN PosInf
    ELSE IF Sign(a) < 0 THEN Neg(a) ELSE a

\* Math.min and Math.max: NaN if either argument is NaN.
MathMin(a, b) == IF a.k = "NaN" \/ b.k = "NaN" THEN NaN ELSE IF Lt(b, a) THEN b ELSE a

MathMax(a, b) == IF a.k = "NaN" \/ b.k = "NaN" THEN NaN ELSE IF Gt(b, a) THEN b ELSE a

(***************************************************************************)
(* Angles.  [u, c, s, k]: unit u ("deg" or "rad"), direction (c, s) =       *)
(* (cos, sin), and k full turns added to the principal angle in (-pi, pi]. *)
(***************************************************************************)
NaNAngle(u) == [u |-> u, c |-> NaN, s |-> NaN, k |-> 0]

IsNaNAngle(a) == a.c.k = "NaN"

Half == Rat(1, 2)

HalfSqrt3 == Mul(Half, Sqrt(Num(3)))

\* cos of r degrees, r a multiple of 30 in 0..330.
CosDeg(r) ==
    CASE r = 0 -> One
      [] r \in {30, 330} -> HalfSqrt3
      [] r \in {60, 300} -> Half
      [] r \in {90, 270} -> Zero
      [] r \in {120, 240} -> Neg(Half)
      [] r \in {150, 210} -> Neg(HalfSqrt3)
      [] r = 180 -> Neg(One)

\* The number n (whole degrees, a multiple of 30) as an angle in degrees.
Deg(n) ==
    LET r   == n % 360
        arg == IF r <= 180 THEN r ELSE r - 360
    IN  [u |-> "deg", c |-> CosDeg(r), s |-> CosDeg((r + 270) % 360),
         k |-> (n - arg) \div 360]

toRad(a) == IF a.u = "deg" THEN [a EXCEPT !.u = "rad"] ELSE NaNAngle("?")

toDeg(a) == IF a.u = "rad" THEN [a EXCEPT !.u = "deg"] ELSE NaNAngle("?")

MathCos(a) == IF a.u = "rad" THEN a.c ELSE CHOOSE x \in {} : TRUE

MathSin(a) == IF a.u = "rad" THEN a.s ELSE CHOOSE x \in {} : TRUE

\* Math.acos: NaN outside [-1, 1], otherwise the angle in [0, pi].
MathAcos(v) ==
    IF ~IsFinite(v) \/ Gt(v, One) \/ Lt(v, Neg(One)) THEN NaNAngle("rad")
    ELSE [u |-> "rad", c |-> v, s |-> Sqrt(Sub(One, Mul(v, v))), k |-> 0]

\* Math.atan2(y, x) for finite y, x: the angle of (x, y) in (-pi, pi]; 0 at (0, 0).
MathAtan2(y, x) ==
    IF ~IsFinite(y) \/ ~IsFinite(x) THEN NaNAngle("rad")
    ELSE IF Sign(x) = 0 /\ Sign(y) = 0 THEN [u |-> "rad", c |-> One, s |-> Zero, k |-> 0]
    ELSE LET d == Sqrt(Add(Mul(x, x), Mul(y, y)))
         IN  [u |-> "rad", c |-> Div(x, d), s |-> Div(y, d), k |-> 0]

\* -a: the principal angle pi becomes -pi, one turn below pi.
AngNeg(a) ==
    IF IsNaNAngle(a) THEN a
    ELSE IF Sign(a.s) = 0 /\ Sign(a.c) < 0 THEN [a EXCEPT !.k = -a.k - 1]
    ELSE [a EXCEPT !.s = Neg(a.s), !.k = -a.k]

\* a + b of two angles in radians.
AngAdd(a, b) ==
    IF IsNaNAngle(a) \/ IsNaNAngle(b) THEN NaNAngle("rad")
    ELSE LET both  == Sign(Add(a.c, b.c))
             carry == IF Sign(a.s) >= 0 /\ Sign(b.s) >= 0
                      THEN (IF both < 0 THEN 1 ELSE 0)
                      ELSE IF Sign(a.s) < 0 /\ Sign(b.s) < 0
                      THEN (IF both <= 0 THEN -1 ELSE 0)
                      ELSE 0
         IN  [u |-> "rad",
              c |-> Sub(Mul(a.c, b.c), Mul(a.s, b.s)),
              s |-> Add(Mul(a.s, b.c), Mul(a.c, b.s)),
              k |-> a.k + b.k + carry]

AngSub(a, b) == AngAdd(a, AngNeg(b))

(***************************************************************************)
(* Forward kinematics: computeFK(L1, L2, theta1Deg, theta2Deg).            *)
(***************************************************************************)
computeFK(l1, l2, theta1Deg, theta2Deg) ==
    LET t1 == toRad(theta1Deg)
        t2 == toRad(theta2Deg)
    IN  [x |-> Add(Mul(Num(l1), MathCos(t1)), Mul(Num(l2), MathCos(AngAdd(t1, t2)))),
         y |-> Add(Mul(Num(l1), MathSin(t1)), Mul(Num(l2), MathSin(AngAdd(t1, t2))))]

(***************************************************************************)
(* Inverse kinematics: computeIK(l1, l2, x, y), one operator per step.     *)
(***************************************************************************)
\* const dist = Math.sqrt(x * x + y * y)
IKDist(x, y) == Sqrt(Num(x * x + y * y))

\* Mutant of IKUnreachable: the upper limit tested with >= (a target at full
\* extension rejected).
IKUnreachableExclusive(l1, l2, x, y) ==
    \/ ~Lt(IKDist(x, y), Num(l1 + l2))
    \/ Lt(IKDist(x, y), MathAbs(Num(l1 - l2)))

\* if (dist > l1 + l2 || dist < Math.abs(l1 - l2))
IKUnreachable(l1, l2, x, y) ==
    \/ Gt(IKDist(x, y), Num(l1 + l2))
    \/ Lt(IKDist(x, y), MathAbs(Num(l1 - l2)))

\* Mutant of IKCosTheta2Raw: the sign of l2*l2 slipped in the cosine law.
IKCosTheta2RawSignSlip(l1, l2, x, y) ==
    Div(Num(x * x + y * y - l1 * l1 + l2 * l2), Num(2 * l1 * l2))

\* cosTheta2, before and after the clamp to [-1, 1]
IKCosTheta2Raw(l1, l2, x, y) ==
    Div(Num(x * x + y * y - l1 * l1 - l2 * l2), Num(2 * l1 * l2))

IKCosTheta2(l1, l2, x, y) ==
    MathMax(Neg(One), MathMin(One, IKCosTheta2Raw(l1, l2, x, y)))

\* const phi = Math.acos((l1*l1 + x*x + y*y - l2*l2) / (2 * l1 * dist))
IKPhi(l1, l2, x, y) ==
    MathAcos(Div(Num(l1 * l1 + x * x + y * y - l2 * l2),
                 Mul(Num(2 * l1), IKDist(x, y))))

\* const alpha = Math.atan2(y, x)
IKAlpha(x, y) == MathAtan2(Num(y), Num(x))

\* Mutant of IKTheta1Rad: the elbow-down root, alpha + phi.
IKTheta1RadElbowDown(l1, l2, x, y) == AngAdd(IKAlpha(x, y), IKPhi(l1, l2, x, y))

\* const theta1Rad = alpha - phi
IKTheta1Rad(l1, l2, x, y) == AngSub(IKAlpha(x, y), IKPhi(l1, l2, x, y))

computeIK(l1, l2, x, y) ==
    IF IKUnreachable(l1, l2, x, y)
    THEN [theta1Deg |-> Deg(0), theta2Deg |-> Deg(0)]
    ELSE [theta1Deg |-> toDeg(IKTheta1Rad(l1, l2, x, y)),
          theta2Deg |-> toDeg(MathAcos(IKCosTheta2(l1, l2, x, y)))]


(***************************************************************************)
(* Number.prototype.toFixed(2): the decimal string with two digits, kept   *)
(* as its value in hundredths (ties round away from zero).                 *)
(***************************************************************************)
\* floor(w * sqrt(m)) for an integer w and a square-free m > 1.
FloorSurd(w, m) ==
    IF w >= 0 THEN ISqrt(w * w * m) ELSE -ISqrt(w * w * m) - 1

toFixed2(a) ==
    IF ~IsFinite(a) THEN [k |-> "string", special |-> a.k, v |-> 0]
    ELSE LET b    == MathAbs(a)
             u    == Coef(b.n, 1)
             rest == DOMAIN b.n \ {1}
             surd == IF rest = {} THEN 0
                     ELSE LET m == CHOOSE m \in rest : rest = {m}
                          IN  FloorSurd(200 * b.n[m], m)
         IN  [k |-> "string", special |-> "",
              v |-> Sign(a) * ((200 * u + surd + b.d) \div (2 * b.d))]

(***************************************************************************)
(* The component Home: its state, one render and the effects of a commit.  *)
(***************************************************************************)
CanvasWidth == 500

CanvasHeight == 500

\* The state values a render captures (what its closures and its JSX see).
Snapshot ==
    [mode |-> mode, L1 |-> L1, L2 |-> L2, theta1 |-> theta1, theta2 |-> theta2,
     targetX |-> targetX, targetY |-> targetY, endX |-> endX, endY |-> endY,
     ikTheta1 |-> ikTheta1, ikTheta2 |-> ikTheta2]

\* Dependency lists of the three useEffect hooks.
FKEffectDeps(r) == <<r.mode, r.L1, r.L2, r.theta1, r.theta2>>

\* Mutant of IKEffectDeps: the target left out of the dependency list.
IKEffectDepsNoTarget(r) == <<r.mode, r.L1, r.L2>>

IKEffectDeps(r) == <<r.mode, r.L1, r.L2, r.targetX, r.targetY>>

DrawEffectDeps(r) ==
    <<r.mode, r.L1, r.L2, r.theta1, r.theta2, r.targetX, r.targetY,
      r.ikTheta1, r.ikTheta2>>

BlankCanvas ==
    [drawn |-> FALSE, mode |-> "FK", L1 |-> 0, L2 |-> 0,
     drawT1Deg |-> Deg(0), drawT2Deg |-> Deg(0),
     originX |-> Zero, originY |-> Zero,
     joint1X |-> Zero, joint1Y |-> Zero, joint2X |-> Zero, joint2Y |-> Zero,
     marker |-> FALSE, targetX |-> 0, targetY |-> 0, targX |-> Zero, targY |-> Zero]

\* Mutant of drawArm: segment 2 drawn at angle2 alone instead of angle1 + angle2.
drawArmSegment2Alone(r) ==
    LET originX   == Div(Num(CanvasWidth), Num(2))
        originY   == Div(Num(CanvasHeight), Num(2))
        drawT1Deg == IF r.mode = "FK" THEN Deg(r.theta1) ELSE r.ikTheta1
        drawT2Deg == IF r.mode = "FK" THEN Deg(r.theta2) ELSE r.ikTheta2
        t1        == toRad(drawT1Deg)
        t2        == toRad(drawT2Deg)
        joint1X   == Add(originX, Mul(Num(r.L1), MathCos(t1)))
        joint1Y   == Sub(originY, Mul(Num(r.L1), MathSin(t1)))
        joint2X   == Add(joint1X, Mul(Num(r.L2), MathCos(t2)))
        joint2Y   == Sub(joint1Y, Mul(Num(r.L2), MathSin(t2)))
    IN  [drawn |-> TRUE, mode |-> r.mode, L1 |-> r.L1, L2 |-> r.L2,
         drawT1Deg |-> drawT1Deg, drawT2Deg |-> drawT2Deg,
         originX |-> originX, originY |-> originY,
         joint1X |-> joint1X, joint1Y |-> joint1Y,
         joint2X |-> joint2X, joint2Y |-> joint2Y,
         marker |-> (r.mode = "IK"), targetX |-> r.targetX, targetY |-> r.targetY,
         targX |-> IF r.mode = "IK" THEN Add(originX, Num(r.targetX)) ELSE Zero,
         targY |-> IF r.mode = "IK" THEN Sub(originY, Num(r.targetY)) ELSE Zero]

\* drawArm() as the closure of render r: the picture it leaves on the canvas.
drawArm(r) ==
    LET originX   == Div(Num(CanvasWidth), Num(2))
        originY   == Div(Num(CanvasHeight), Num(2))
        drawT1Deg == IF r.mode = "FK" THEN Deg(r.theta1) ELSE r.ikTheta1
        drawT2Deg == IF r.mode = "FK" THEN Deg(r.theta2) ELSE r.ikTheta2
        t1        == toRad(drawT1Deg)
        t2        == toRad(drawT2Deg)
        joint1X   == Add(originX, Mul(Num(r.L1), MathCos(t1)))
        joint1Y   == Sub(originY, Mul(Num(r.L1), MathSin(t1)))
        joint2X   == Add(joint1X, Mul(Num(r.L2), MathCos(AngAdd(t1, t2))))
        joint2Y   == Sub(joint1Y, Mul(Num(r.L2), MathSin(AngAdd(t1, t2))))
    IN  [drawn |-> TRUE, mode |-> r.mode, L1 |-> r.L1, L2 |-> r.L2,
         drawT1Deg |-> drawT1Deg, drawT2Deg |-> drawT2Deg,
         originX |-> originX, originY |-> originY,
         joint1X |-> joint1X, joint1Y |-> joint1Y,
         joint2X |-> joint2X, joint2Y |-> joint2Y,
         marker |-> (r.mode = "IK"), targetX |-> r.targetX, targetY |-> r.targetY,
         targX |-> IF r.mode = "IK" THEN Add(originX, Num(r.targetX)) ELSE Zero,
         targY |-> IF r.mode = "IK" THEN Sub(originY, Num(r.targetY)) ELSE Zero]

NoCall ==
    [op |-> "none", L1 |-> 0, L2 |-> 0, a |-> 0, b |-> 0, outcome |-> "none",
     unreachable |-> FALSE, cosTheta2 |-> Zero,
     alpha |-> NaNAngle("rad"), phi |-> NaNAngle("rad"),
     ik |-> [theta1Deg |-> Deg(0), theta2Deg |-> Deg(0)],
     fk |-> [x |-> Zero, y |-> Zero]]

inputs == <<mode, L1, L2, theta1, theta2, targetX, targetY>>

outputs == <<endX, endY, ikTheta1, ikTheta2>>

page == <<inputs, outputs, canvasRef, view, prev, mounted, pc, renders, canvas>>

vars == <<mode, L1, L2, theta1, theta2, targetX, targetY, endX, endY,
          ikTheta1, ikTheta2, canvasRef, view, prev, mounted, pc, renders,
          canvas, solve>>

\* The state after construction: the useState / useRef initial values, the
\* first render still to come.
Init ==
    /\ mode = "FK"
    /\ L1 = 100
    /\ L2 = 80
    /\ theta1 = 0
    /\ theta2 = 0
    /\ targetX = 100
    /\ targetY = 50
    /\ endX = [k |-> "number", special |-> "", v |-> 0]
    /\ endY = [k |-> "number", special |-> "", v |-> 0]
    /\ ikTheta1 = Deg(0)
    /\ ikTheta2 = Deg(0)
    /\ canvasRef = "null"
    /\ view = Snapshot
    /\ prev = Snapshot
    /\ mounted = FALSE
    /\ pc = "render"
    /\ renders = 0
    /\ canvas = BlankCanvas
    /\ solve = NoCall

\* React calls Home() with the current state and commits the result.
Render ==
    /\ pc = "render"
    /\ view' = Snapshot
    /\ canvasRef' = "canvas"
    /\ renders' = renders + 1
    /\ pc' = "effects"
    /\ UNCHANGED <<inputs, outputs, prev, mounted, canvas, solve>>

\* The effects of the commit, in the order of their useEffect calls; each runs
\* on mount and whenever one of its dependencies differs from the render
\* before.  A setter whose value is the current state schedules nothing.
Effects ==
    /\ pc = "effects"
    /\ LET runFK   == ~mounted \/ FKEffectDeps(view) # FKEffectDeps(prev)
           runIK   == ~mounted \/ IKEffectDeps(view) # IKEffectDeps(prev)
           runDraw == ~mounted \/ DrawEffectDeps(view) # DrawEffectDeps(prev)
           fk      == computeFK(view.L1, view.L2, Deg(view.theta1), Deg(view.theta2))
           ik      == computeIK(view.L1, view.L2, view.targetX, view.targetY)
       IN  /\ IF runFK /\ view.mode = "FK"
              THEN endX' = toFixed2(fk.x) /\ endY' = toFixed2(fk.y)
              ELSE UNCHANGED <<endX, endY>>
           /\ IF runIK /\ view.mode = "IK"
              THEN ikTheta1' = ik.theta1Deg /\ ikTheta2' = ik.theta2Deg
              ELSE UNCHANGED <<ikTheta1, ikTheta2>>
           /\ IF runDraw /\ canvasRef # "null"
              THEN canvas' = drawArm(view)
              ELSE UNCHANGED canvas
    /\ prev' = view
    /\ mounted' = TRUE
    /\ pc' = IF outputs' # outputs THEN "render" ELSE "idle"
    /\ renders' = IF outputs' # outputs THEN renders ELSE 0
    /\ UNCHANGED <<inputs, canvasRef, view, solve>>

(***************************************************************************)
(* The user's events.  React flushes the effects of a commit and the       *)
(* render they schedule before it dispatches the next discrete event, so   *)
(* a handler runs only when nothing is pending.  Number(e.target.value) is *)
(* drawn from the bounded sets below.                                      *)
(***************************************************************************)
MaxAngleStep == 1

LengthInputs == {80, 100}

AngleInputs == {30 * i : i \in 0..MaxAngleStep}

TargetXInputs == {0, 100, 180}

TargetYInputs == {0, 50}

\* What every handler does besides its setter: React schedules a render
\* unless the value set is the current state.
Scheduled(changed) ==
    /\ pc = "idle"
    /\ pc' = IF changed THEN "render" ELSE "idle"
    /\ UNCHANGED <<outputs, canvasRef, view, prev, mounted, renders, canvas, solve>>

\* onClick={() => setMode('FK')} and onClick={() => setMode('IK')}
ClickMode(m) ==
    /\ mode' = m
    /\ Scheduled(m # mode)
    /\ UNCHANGED <<L1, L2, theta1, theta2, targetX, targetY>>

\* onChange={(e) => setL1(Number(e.target.value))}
ChangeL1(n) ==
    /\ L1' = n
    /\ Scheduled(n # L1)
    /\ UNCHANGED <<mode, L2, theta1, theta2, targetX, targetY>>

ChangeL2(n) ==
    /\ L2' = n
    /\ Scheduled(n # L2)
    /\ UNCHANGED <<mode, L1, theta1, theta2, targetX, targetY>>

\* The angle inputs are rendered in FK mode only.
ChangeTheta1(n) ==
    /\ view.mode = "FK"
    /\ theta1' = n
    /\ Scheduled(n # theta1)
    /\ UNCHANGED <<mode, L1, L2, theta2, targetX, targetY>>

ChangeTheta2(n) ==
    /\ view.mode = "FK"
    /\ theta2' = n
    /\ Scheduled(n # theta2)
    /\ UNCHANGED <<mode, L1, L2, theta1, targetX, targetY>>

\* The target inputs are rendered in IK mode only.
ChangeTargetX(n) ==
    /\ view.mode = "IK"
    /\ targetX' = n
    /\ Scheduled(n # targetX)
    /\ UNCHANGED <<mode, L1, L2, theta1, theta2, targetY>>

ChangeTargetY(n) ==
    /\ view.mode = "IK"
    /\ targetY' = n
    /\ Scheduled(n # targetY)
    /\ UNCHANGED <<mode, L1, L2, theta1, theta2, targetX>>

UserEvent ==
    \/ \E m \in {"FK", "IK"} : ClickMode(m)
    \/ \E n \in LengthInputs : ChangeL1(n)
    \/ \E n \in LengthInputs : ChangeL2(n)
    \/ \E n \in AngleInputs : ChangeTheta1(n)
    \/ \E n \in AngleInputs : ChangeTheta2(n)
    \/ \E n \in TargetXInputs : ChangeTargetX(n)
    \/ \E n \in TargetYInputs : ChangeTargetY(n)

(***************************************************************************)
(* The solvers called directly, as a test of the two functions calls them: *)
(* arguments drawn from bounded sets, one call at a time.                  *)
(***************************************************************************)
MaxGrid == 9

MaxFKAngleStep == 6

SolverLengths == {-80, 0, 80, 100}

SolverAngles == {30 * i : i \in -MaxFKAngleStep..MaxFKAngleStep}

\* Targets: a grid of step 20 around the base joint, and the points off the
\* grid that the page starts with or that lie next to the reach limits.
SolverTargets ==
    {<<20 * i, 20 * j>> : i \in -MaxGrid..MaxGrid, j \in -MaxGrid..MaxGrid}
        \cup {<<100, 50>>, <<181, 0>>, <<19, 0>>, <<108, 144>>, <<12, 16>>}

\* computeFK(l1, l2, t1, t2) is called and returns.
CallFK(l1, l2, t1, t2) ==
    /\ solve.op = "none"
    /\ solve' = [NoCall EXCEPT !.op = "FK", !.L1 = l1, !.L2 = l2, !.a = t1, !.b = t2,
                               !.outcome = "returned",
                               !.fk = computeFK(l1, l2, Deg(t1), Deg(t2))]
    /\ UNCHANGED page

\* computeIK(l1, l2, x, y) is called and returns; the record keeps the branch
\* taken and, on the solving branch, the intermediate values.
CallIK(l1, l2, x, y) ==
    /\ solve.op = "none"
    /\ solve' = IF IKUnreachable(l1, l2, x, y)
                THEN [NoCall EXCEPT !.op = "IK", !.L1 = l1, !.L2 = l2, !.a = x, !.b = y,
                                    !.outcome = "returned", !.unreachable = TRUE,
                                    !.ik = computeIK(l1, l2, x, y)]
                ELSE [NoCall EXCEPT !.op = "IK", !.L1 = l1, !.L2 = l2, !.a = x, !.b = y,
                                    !.outcome = "returned", !.unreachable = FALSE,
                                    !.cosTheta2 = IKCosTheta2(l1, l2, x, y),
                                    !.alpha = IKAlpha(x, y),
                                    !.phi = IKPhi(l1, l2, x, y),
                                    !.ik = computeIK(l1, l2, x, y)]
    /\ UNCHANGED page

\* computeFK is called with the same lengths and the angles computeIK returned.
CallFKOnResult ==
    /\ solve.op = "IK"
    /\ solve' = [solve EXCEPT !.op = "RT",
                              !.fk = computeFK(solve.L1, solve.L2,
                                               solve.ik.theta1Deg, solve.ik.theta2Deg)]
    /\ UNCHANGED page

\* The caller drops the result.
Forget ==
    /\ solve.op # "none"
    /\ solve' = NoCall
    /\ UNCHANGED page

SolverNext ==
    \/ /\ solve.op = "none"
       /\ \E l1 \in SolverLengths, l2 \in SolverLengths,
             t1 \in SolverAngles, t2 \in SolverAngles : CallFK(l1, l2, t1, t2)
    \/ /\ solve.op = "none"
       /\ \E l1 \in SolverLengths, l2 \in SolverLengths, t \in SolverTargets :
             CallIK(l1, l2, t[1], t[2])
    \/ CallFKOnResult
    \/ Forget

SolverSpec == Init /\ [][SolverNext]_vars

Next == Render \/ Effects \/ UserEvent

Spec == Init /\ [][Next]_vars

\* A commit's effects always leave the page waiting for a render or idle;
\* Effects is the only step of Next that is taken from pc = "effects".
EffectsFlushed == pc = "effects" /\ pc' \in {"render", "idle"}

\* React always carries out a scheduled render and the effects of a commit.
FairSpec == Spec /\ WF_vars(Render) /\ WF_pc(EffectsFlushed)

(***************************************************************************)
(* Claims about the solvers, checked under SolverSpec.                     *)
(***************************************************************************)
PositiveLengths == solve.L1 > 0 /\ solve.L2 > 0

DistSquared == solve.a * solve.a + solve.b * solve.b

\* |u - n| <= 1e-6, false when u is not finite.
WithinTolerance(u, n) ==
    /\ IsFinite(u)
    /\ ~Gt(MathAbs(Sub(u, Num(n))), Rat(1, 1000000))

\* C1: for an unreachable target computeIK returns an outcome distinct from
\* every solved pose, in particular from the angles it returns for the
\* reachable target (L1 + L2, 0).
C1_UnreachableIsDistinct ==
    (solve.op = "IK" /\ PositiveLengths /\ solve.unreachable)
        => solve.ik # computeIK(solve.L1, solve.L2, solve.L1 + solve.L2, 0)

\* C2: with positive lengths computeIK takes the unreachable path exactly when
\* the squared distance of the target is outside [(L1 - L2)^2, (L1 + L2)^2],
\* both limits belonging to the reachable side.
C2_ReachableIffInRange ==
    (solve.op = "IK" /\ PositiveLengths)
        => (solve.unreachable <=>
               ~(/\ (solve.L1 - solve.L2) * (solve.L1 - solve.L2) <= DistSquared
                 /\ DistSquared <= (solve.L1 + solve.L2) * (solve.L1 + solve.L2)))

\* C2 witness: lengths 100 and 80, a target at distance 19, found unreachable.
C2_Witness ==
    /\ solve.op = "IK" /\ solve.L1 = 100 /\ solve.L2 = 80
    /\ solve.a = 19 /\ solve.b = 0 /\ solve.unreachable

\* C3: with positive lengths computeIK never returns a NaN or infinite angle.
C3_AnglesAreFinite ==
    (solve.op = "IK" /\ PositiveLengths)
        => /\ IsFinite(solve.ik.theta1Deg.c) /\ IsFinite(solve.ik.theta1Deg.s)
           /\ IsFinite(solve.ik.theta2Deg.c) /\ IsFinite(solve.ik.theta2Deg.s)

\* C4: a call of either solver with a zero or negative length ends in a
\* validation failure and returns no position or angles.
C4_DegenerateRejected ==
    (solve.op \in {"FK", "IK"} /\ ~PositiveLengths) => solve.outcome = "rejected"

\* C5: with positive lengths and a target computeIK solves, computeFK of the
\* returned angles is within 1e-6 of the target on each coordinate.
C5_RoundTrip ==
    (solve.op = "RT" /\ PositiveLengths /\ ~solve.unreachable)
        => /\ WithinTolerance(solve.fk.x, solve.a)
           /\ WithinTolerance(solve.fk.y, solve.b)

\* C6: with positive lengths a target at distance exactly L1 + L2 is solved
\* with cosTheta2 = 1 and theta2 = 0 degrees, and a target at distance exactly
\* |L1 - L2| is solved with cosTheta2 = -1 and theta2 = 180 degrees.
C6_BoundaryAngles ==
    (solve.op = "IK" /\ PositiveLengths)
        => /\ DistSquared = (solve.L1 + solve.L2) * (solve.L1 + solve.L2)
                => /\ ~solve.unreachable
                   /\ solve.cosTheta2 = One
                   /\ solve.ik.theta2Deg = Deg(0)
           /\ DistSquared = (solve.L1 - solve.L2) * (solve.L1 - solve.L2)
                => /\ ~solve.unreachable
                   /\ solve.cosTheta2 = Neg(One)
                   /\ solve.ik.theta2Deg = Deg(180)

\* C6 witness: lengths 100 and 80, the target (12, 16) at distance 20, solved
\* fully folded.
C6_Witness ==
    /\ solve.op = "IK" /\ solve.L1 = 100 /\ solve.L2 = 80
    /\ solve.a = 12 /\ solve.b = 16
    /\ ~solve.unreachable /\ solve.ik.theta2Deg = Deg(180)

\* C7: with positive lengths and a reachable target, the theta2 returned is in
\* [0, 180] degrees and theta1 is alpha - phi, not the elbow-down alpha + phi.
C7_ElbowUp ==
    (solve.op = "IK" /\ PositiveLengths /\ ~solve.unreachable)
        => /\ solve.ik.theta2Deg.u = "deg"
           /\ IsFinite(solve.ik.theta2Deg.s)
           /\ solve.ik.theta2Deg.k = 0
           /\ Sign(solve.ik.theta2Deg.s) >= 0
           /\ solve.ik.theta1Deg = toDeg(AngSub(solve.alpha, solve.phi))
           /\ (~IsNaNAngle(solve.phi) /\ solve.phi # MathAcos(One))
                => solve.ik.theta1Deg # toDeg(AngAdd(solve.alpha, solve.phi))

\* C7 witness: the page's first target (100, 50) with lengths 100 and 80,
\* solved with the elbow bent (theta2 strictly between 0 and 180 degrees).
C7_Witness ==
    /\ solve.op = "IK" /\ solve.L1 = 100 /\ solve.L2 = 80
    /\ solve.a = 100 /\ solve.b = 50
    /\ ~solve.unreachable /\ Sign(solve.ik.theta2Deg.s) > 0

(***************************************************************************)
(* Claims about the page, checked under Spec and FairSpec.                 *)
(***************************************************************************)
\* C8: every drawArm in IK mode uses the angles computeIK gives for the
\* lengths and the target of that same draw.
C8_NoStaleDraw ==
    (canvas.drawn /\ canvas.mode = "IK")
        => [theta1Deg |-> canvas.drawT1Deg, theta2Deg |-> canvas.drawT2Deg]
               = computeIK(canvas.L1, canvas.L2, canvas.targetX, canvas.targetY)

\* C9: the end-effector drawArm draws is computeFK of the lengths and the
\* drawing angles, moved to the canvas origin with y flipped.
C9_DrawRestatesFK ==
    canvas.drawn
        => LET p == computeFK(canvas.L1, canvas.L2, canvas.drawT1Deg, canvas.drawT2Deg)
           IN  /\ Sub(canvas.joint2X, canvas.originX) = p.x
               /\ Sub(canvas.originY, canvas.joint2Y) = p.y

\* C9 witness: a draw in FK mode with both angles at 30 degrees.
C9_Witness ==
    /\ canvas.drawn /\ canvas.mode = "FK"
    /\ canvas.drawT1Deg = Deg(30) /\ canvas.drawT2Deg = Deg(30)

\* What the page shows when nothing is pending agrees with its inputs.
Consistent ==
    /\ view = Snapshot
    /\ canvas = drawArm(Snapshot)
    /\ mode = "FK" =>
          LET p == computeFK(L1, L2, Deg(theta1), Deg(theta2))
          IN  endX = toFixed2(p.x) /\ endY = toFixed2(p.y)
    /\ mode = "IK" =>
          [theta1Deg |-> ikTheta1, theta2Deg |-> ikTheta2]
              = computeIK(L1, L2, targetX, targetY)

\* C10: after every input change the renders and effects come to rest (at
\* most two renders, then nothing pending), and at rest the last draw and the
\* numbers shown are those of the current inputs.
C10_SettlesConsistently ==
    /\ [](pc = "idle" => Consistent)
    /\ [](renders <= 2)
    /\ []<>(pc = "idle")

\* C10 witness: at rest in IK mode after the target was moved to (180, 0).
C10_Witness ==
    /\ pc = "idle" /\ mode = "IK" /\ targetX = 180 /\ targetY = 0
    /\ ikTheta2 = Deg(0)

====
